---- MODULE Spec2Model ----
(***************************************************************************)
(* Model of the chat-completion execution pipeline of ai-gateway:          *)
(*   core/src/executor/chat_completion/basic_executor.rs  (execute)        *)
(*                                                                         *)
(* One execution is modelled: the execute future, the relay task it        *)
(* spawns, the model adapter's invoke (an external collaborator, modelled  *)
(* by what it can do with the producer end it is handed), the consumers    *)
(* of the two event sinks and of the cache response sink, and the          *)
(* background usage task behind the optional join handle.                  *)
(*                                                                         *)
(* Option<T> is modelled as a sequence of length 0 (None) or 1 (Some).     *)
(* Panics unwind (the default profile): a panic inside the spawned relay   *)
(* task ends that task only, a panic inside execute ends execute.          *)
(***************************************************************************)
EXTENDS Integers, Sequences, FiniteSets, TLC

\* ------------------------------------------------------------------ bounds

\* Number of send calls the model adapter makes on the internal channel.
MaxEvents == 3

\* Capacity of the internal relay channel. The code creates it with 10000
\* slots; the model keeps the same bounded-channel semantics with a capacity
\* small enough for the channel to fill up.
ChannelCapacity == 2

\* Capacity of the caller-provided sink channels (tx and events_sender).
SinkCapacity == 1

\* ------------------------------------------------------------------ values

None == <<>>
Some(v) == <<v>>

\* Payload of one item on the channel: Option<ModelEvent>.
Payloads == {"None", "Some"}

\* Provider-reported finish reasons, by their string form.
FinishReasons == {"stop", "length"}

\* The final messages an invocation can return: (tool_calls, content).
Messages ==
    [tool_calls : {None, Some("calls")}, content : {None, Some("text")}]

\* What model.invoke returns on success.
InvocationResults == [message : Messages, finish_reason : FinishReasons]

\* The usage record of a finish event.
UsageRecords ==
    [input_tokens : {3}, output_tokens : {2}, total_tokens : {5},
     is_cache_used : BOOLEAN]

\* What the background task yields as the first component of its pair:
\* Option<LLMFinishEvent>, the event carrying usage: Option<usage record>.
FinishEvents ==
    {None} \cup {Some([usage |-> None])}
           \cup {Some([usage |-> Some(u)]) : u \in UsageRecords}

NoResult == [kind |-> "none"]

IsPrefix(s, t) == Len(s) <= Len(t) /\ SubSeq(t, 1, Len(s)) = s

\* ------------------------------------------------------------------- state

VARIABLES
    cache_context,   \* which cache sinks are configured
    handle,          \* background usage task: "absent", "running", "done", "panicked"
    handle_value,    \* what the usage task yielded (Option<LLMFinishEvent>)
    pc,              \* position of execute
    rpc,             \* position of the relay task
    event,           \* the item the relay holds between recv and the sends
    inner,           \* buffer of the internal channel
    inner_tx,        \* the producer end handed to invoke is alive
    rx,              \* the relay's receiving end is alive
    sent,            \* number of send calls made by the model adapter
    produced,        \* items the internal channel accepted, in order
    events_sink,     \* cache events sink: [log, buf, open]
    tx,              \* outbound sink: [log, buf, open]
    response_sink,   \* cache response sink (oneshot): [delivered, open]
    response,        \* Option<InvocationResult>
    finish_reason,   \* Option<String>, resolved at step 5
    invoked,         \* number of calls of model.invoke
    joined,          \* the usage task handle was awaited
    result,          \* what execute returned
    planned,         \* events the model adapter sends before it returns (Progress)
    out_stalled,     \* the outbound sink's consumer has stopped receiving (Progress)
    codec_pc,        \* what the codec value is: "part", "wire", "message", ... (Codec)
    codec_in,        \* the value a conversion started from (Codec)
    codec_out        \* the value the last conversion produced (Codec)

\* The state of one execution.
pipeline_vars ==
    <<cache_context, handle, handle_value, pc, rpc, event, inner, inner_tx, rx,
      sent, produced, events_sink, tx, response_sink, response, finish_reason,
      invoked, joined, result>>

\* The assumptions of the progress scenarios about the environment.
scenario_vars == <<planned, out_stalled>>

\* The value the pure conversions of threads.rs are applied to.
codec_vars == <<codec_pc, codec_in, codec_out>>

vars == <<pipeline_vars, scenario_vars, codec_vars>>

\* execute before its first statement, the arguments apart.
ExecuteEntry ==
    /\ handle_value = None
    /\ pc = "start"
    /\ rpc = "unspawned"
    /\ event = None
    /\ inner = <<>>
    /\ inner_tx = FALSE
    /\ rx = FALSE
    /\ sent = 0
    /\ produced = <<>>
    /\ events_sink = [log |-> <<>>, buf |-> 0, open |-> TRUE]
    /\ tx = [log |-> <<>>, buf |-> 0, open |-> TRUE]
    /\ response_sink = [delivered |-> <<>>, open |-> TRUE]
    /\ response = None
    /\ finish_reason = None
    /\ invoked = 0
    /\ joined = FALSE
    /\ result = NoResult

\* No conversion is under way.
CodecIdle ==
    /\ codec_pc = "idle"
    /\ codec_in = None
    /\ codec_out = None

\* The inputs of execute: BasicCacheContext and the optional handle. The
\* model adapter may stop after any number of events up to MaxEvents.
Init ==
    /\ cache_context \in [events_sender : BOOLEAN, response_sender : BOOLEAN]
    /\ handle \in {"absent", "running"}
    /\ ExecuteEntry
    /\ planned = MaxEvents
    /\ out_stalled = FALSE
    /\ CodecIdle

\* ------------------------------------------------- execute: lines 50-61

\* Lines 50-58: create the internal channel and spawn the relay task, which
\* takes rx, tx and cache_context.events_sender with it.
SpawnRelay ==
    /\ pc = "start"
    /\ pc' = "call"
    /\ rpc' = "recv"
    /\ inner' = <<>>
    /\ inner_tx' = TRUE
    /\ rx' = TRUE
    /\ UNCHANGED <<scenario_vars, codec_vars>>
    /\ UNCHANGED <<cache_context, handle, handle_value, event, sent, produced,
                   events_sink, tx, response_sink, response, finish_reason,
                   invoked, joined, result>>

\* Lines 60-63: call model.invoke, handing it inner_tx, and await it.
InvokeModel ==
    /\ pc = "call"
    /\ pc' = "invoke"
    /\ invoked' = invoked + 1
    /\ UNCHANGED <<scenario_vars, codec_vars>>
    /\ UNCHANGED <<cache_context, handle, handle_value, rpc, event, inner,
                   inner_tx, rx, sent, produced, events_sink, tx, response_sink,
                   response, finish_reason, joined, result>>

\* ------------------------------------------- the model adapter (invoke)

\* Mutant of HasCapacity: an unbounded channel.
HasCapacityUnbounded(q) == TRUE

\* A bounded mpsc send completes only when the channel has a free slot.
HasCapacity(q) == Len(q) < ChannelCapacity

\* Mutant of Enqueue: the item is put at the front of the buffer.
EnqueueFront(q, e) == <<e>> \o q

\* mpsc is first-in first-out: a sent item goes to the back of the buffer.
Enqueue(q, e) == Append(q, e)

\* inner_tx.send(item).await while the relay's receiver is alive: suspends
\* (the action is not enabled) while the channel is full.
ModelSend(p) ==
    /\ pc = "invoke"
    /\ sent < planned
    /\ rx
    /\ HasCapacity(inner)
    /\ sent' = sent + 1
    /\ inner' = Enqueue(inner, [n |-> sent + 1, payload |-> p])
    /\ produced' = Append(produced, [n |-> sent + 1, payload |-> p])
    /\ UNCHANGED <<scenario_vars, codec_vars>>
    /\ UNCHANGED <<cache_context, handle, handle_value, pc, rpc, event,
                   inner_tx, rx, events_sink, tx, response_sink, response,
                   finish_reason, invoked, joined, result>>

\* inner_tx.send(item).await after the relay's receiver was dropped: the send
\* returns an error and the item goes nowhere; the adapter carries on.
ModelSendClosed ==
    /\ pc = "invoke"
    /\ sent < planned
    /\ ~rx
    /\ sent' = sent + 1
    /\ UNCHANGED <<scenario_vars, codec_vars>>
    /\ UNCHANGED <<cache_context, handle, handle_value, pc, rpc, event, inner,
                   inner_tx, rx, produced, events_sink, tx, response_sink,
                   response, finish_reason, invoked, joined, result>>

\* Mutant of ModelReturnOk: the finish reason is resolved straight after the
\* invocation, before any handoff.
ModelReturnOkResolveFirst(r) ==
    /\ pc = "invoke"
    /\ pc' = "finish_reason"
    /\ response' = Some(r)
    /\ inner_tx' = FALSE
    /\ UNCHANGED <<scenario_vars, codec_vars>>
    /\ UNCHANGED <<cache_context, handle, handle_value, rpc, event, inner, rx,
                   sent, produced, events_sink, tx, response_sink,
                   finish_reason, invoked, joined, result>>

\* invoke returns Ok(r): its future, and with it inner_tx, is dropped.
ModelReturnOk(r) ==
    /\ pc = "invoke"
    /\ pc' = "handoff"
    /\ response' = Some(r)
    /\ inner_tx' = FALSE
    /\ UNCHANGED <<scenario_vars, codec_vars>>
    /\ UNCHANGED <<cache_context, handle, handle_value, rpc, event, inner, rx,
                   sent, produced, events_sink, tx, response_sink,
                   finish_reason, invoked, joined, result>>

\* Mutant of ModelReturnErr: a failed invocation is tried again.
ModelReturnErrRetry ==
    /\ pc = "invoke"
    /\ pc' = "call"
    /\ UNCHANGED <<scenario_vars, codec_vars>>
    /\ UNCHANGED <<cache_context, handle, handle_value, rpc, event, inner,
                   inner_tx, rx, sent, produced, events_sink, tx, response_sink,
                   response, finish_reason, invoked, joined, result>>

\* Line 64: invoke returns Err(e); map_err(record_map_err) and `?` return it.
ModelReturnErr ==
    /\ pc = "invoke"
    /\ pc' = "returned"
    /\ result' = [kind |-> "Err", error |-> "InvocationError"]
    /\ inner_tx' = FALSE
    /\ UNCHANGED <<scenario_vars, codec_vars>>
    /\ UNCHANGED <<cache_context, handle, handle_value, rpc, event, inner, rx,
                   sent, produced, events_sink, tx, response_sink, response,
                   finish_reason, invoked, joined>>

\* ------------------------------------------------ relay task: lines 51-58

\* rx.recv() yields the oldest buffered item.
Dequeue(q) == Head(q)

\* Mutant of ChannelClosed: recv gives up as soon as the producers are gone.
ChannelClosedUndrained == ~inner_tx

\* Mutant of ChannelClosed: recv gives up whenever the buffer is empty.
ChannelClosedWhenEmpty == inner = <<>>

\* rx.recv() yields None once every producer end is dropped and the buffer
\* is empty.
ChannelClosed == ~inner_tx /\ inner = <<>>

\* Line 53: the cache events sink comes first when it is configured.
FirstStage == IF cache_context.events_sender THEN "cache" ELSE "out"

\* Mutant of StageAfterCache: the loop continues after the cache send.
StageAfterCacheContinue == "recv"

\* Line 56 follows line 54: after the cache events sink, the outbound sink.
StageAfterCache == "out"

\* Mutant of SinkAccepts: a sink never fills up.
SinkAcceptsUnbounded(s) == s.open

\* A send on a caller-provided bounded channel: suspends while it is full.
SinkAccepts(s) == s.open /\ s.buf < SinkCapacity

Deliver(s, e) == [s EXCEPT !.log = Append(@, e), !.buf = @ + 1]

\* Mutant of RelayRecv: a None item is taken for the end of the stream.
RelayRecvStopsOnNone ==
    /\ rpc = "recv"
    /\ inner # <<>>
    /\ inner' = Tail(inner)
    /\ IF Dequeue(inner).payload = "None"
       THEN /\ event' = None
            /\ rpc' = "stopped"
            /\ rx' = FALSE
       ELSE /\ event' = Some(Dequeue(inner))
            /\ rpc' = FirstStage
            /\ rx' = rx
    /\ UNCHANGED <<scenario_vars, codec_vars>>
    /\ UNCHANGED <<cache_context, handle, handle_value, pc, inner_tx, sent,
                   produced, events_sink, tx, response_sink, response,
                   finish_reason, invoked, joined, result>>

\* Line 52: while let Some(event) = rx.recv().await
RelayRecv ==
    /\ rpc = "recv"
    /\ inner # <<>>
    /\ event' = Some(Dequeue(inner))
    /\ inner' = Tail(inner)
    /\ rpc' = FirstStage
    /\ UNCHANGED <<scenario_vars, codec_vars>>
    /\ UNCHANGED <<cache_context, handle, handle_value, pc, inner_tx, rx, sent,
                   produced, events_sink, tx, response_sink, response,
                   finish_reason, invoked, joined, result>>

\* Line 52: recv yields None, the loop and the task end; rx is dropped.
RelayClosed ==
    /\ rpc = "recv"
    /\ ChannelClosed
    /\ rpc' = "stopped"
    /\ rx' = FALSE
    /\ UNCHANGED <<scenario_vars, codec_vars>>
    /\ UNCHANGED <<cache_context, handle, handle_value, pc, event, inner,
                   inner_tx, sent, produced, events_sink, tx, response_sink,
                   response, finish_reason, invoked, joined, result>>

\* Line 54: sender.send(event.clone()).await succeeds.
RelayCacheSend ==
    /\ rpc = "cache"
    /\ SinkAccepts(events_sink)
    /\ events_sink' = Deliver(events_sink, event[1])
    /\ rpc' = StageAfterCache
    /\ UNCHANGED <<scenario_vars, codec_vars>>
    /\ UNCHANGED <<cache_context, handle, handle_value, pc, event, inner,
                   inner_tx, rx, sent, produced, tx, response_sink, response,
                   finish_reason, invoked, joined, result>>

\* Line 54: the cache events sink's receiver is gone: send is Err, unwrap
\* panics, the task ends and drops rx together with what is buffered.
RelayCacheFail ==
    /\ rpc = "cache"
    /\ ~events_sink.open
    /\ rpc' = "panicked"
    /\ event' = None
    /\ rx' = FALSE
    /\ inner' = <<>>
    /\ UNCHANGED <<scenario_vars, codec_vars>>
    /\ UNCHANGED <<cache_context, handle, handle_value, pc, inner_tx, sent,
                   produced, events_sink, tx, response_sink, response,
                   finish_reason, invoked, joined, result>>

\* Line 56: tx.send(event).await succeeds; back to recv.
RelayOutSend ==
    /\ rpc = "out"
    /\ SinkAccepts(tx)
    /\ tx' = Deliver(tx, event[1])
    /\ event' = None
    /\ rpc' = "recv"
    /\ UNCHANGED <<scenario_vars, codec_vars>>
    /\ UNCHANGED <<cache_context, handle, handle_value, pc, inner, inner_tx, rx,
                   sent, produced, events_sink, response_sink, response,
                   finish_reason, invoked, joined, result>>

\* Line 56: the outbound sink's receiver is gone: unwrap panics in the task.
RelayOutFail ==
    /\ rpc = "out"
    /\ ~tx.open
    /\ rpc' = "panicked"
    /\ event' = None
    /\ rx' = FALSE
    /\ inner' = <<>>
    /\ UNCHANGED <<scenario_vars, codec_vars>>
    /\ UNCHANGED <<cache_context, handle, handle_value, pc, inner_tx, sent,
                   produced, events_sink, tx, response_sink, response,
                   finish_reason, invoked, joined, result>>

\* ------------------------------------- the sinks' consumers (the callers)

\* The cache writer receives one item from the cache events sink.
CacheConsume ==
    /\ cache_context.events_sender
    /\ events_sink.open
    /\ events_sink.buf > 0
    /\ events_sink' = [events_sink EXCEPT !.buf = @ - 1]
    /\ UNCHANGED <<scenario_vars, codec_vars>>
    /\ UNCHANGED <<cache_context, handle, handle_value, pc, rpc, event, inner,
                   inner_tx, rx, sent, produced, tx, response_sink, response,
                   finish_reason, invoked, joined, result>>

\* The cache writer drops its receiver.
CacheReceiverDrop ==
    /\ cache_context.events_sender
    /\ events_sink.open
    /\ events_sink' = [events_sink EXCEPT !.open = FALSE, !.buf = 0]
    /\ UNCHANGED <<scenario_vars, codec_vars>>
    /\ UNCHANGED <<cache_context, handle, handle_value, pc, rpc, event, inner,
                   inner_tx, rx, sent, produced, tx, response_sink, response,
                   finish_reason, invoked, joined, result>>

\* The caller receives one item from the outbound sink.
OutConsume ==
    /\ tx.open
    /\ tx.buf > 0
    /\ tx' = [tx EXCEPT !.buf = @ - 1]
    /\ UNCHANGED <<scenario_vars, codec_vars>>
    /\ UNCHANGED <<cache_context, handle, handle_value, pc, rpc, event, inner,
                   inner_tx, rx, sent, produced, events_sink, response_sink,
                   response, finish_reason, invoked, joined, result>>

\* The caller drops the outbound sink's receiver.
OutReceiverDrop ==
    /\ tx.open
    /\ tx' = [tx EXCEPT !.open = FALSE, !.buf = 0]
    /\ UNCHANGED <<scenario_vars, codec_vars>>
    /\ UNCHANGED <<cache_context, handle, handle_value, pc, rpc, event, inner,
                   inner_tx, rx, sent, produced, events_sink, response_sink,
                   response, finish_reason, invoked, joined, result>>

\* The cache writer drops the oneshot receiver of the response sink before
\* the handoff.
ResponseReceiverDrop ==
    /\ cache_context.response_sender
    /\ response_sink.open
    /\ pc \in {"start", "call", "invoke", "handoff"}
    /\ response_sink' = [response_sink EXCEPT !.open = FALSE]
    /\ UNCHANGED <<scenario_vars, codec_vars>>
    /\ UNCHANGED <<cache_context, handle, handle_value, pc, rpc, event, inner,
                   inner_tx, rx, sent, produced, events_sink, tx, response,
                   finish_reason, invoked, joined, result>>

\* ------------------------------------------------ execute: lines 66-123

\* Mutant of HandoffSend: the configured sink is passed over.
HandoffSendForgotten ==
    /\ pc = "handoff"
    /\ cache_context.response_sender
    /\ response_sink.open
    /\ pc' = "finish_reason"
    /\ UNCHANGED <<scenario_vars, codec_vars>>
    /\ UNCHANGED <<cache_context, handle, handle_value, rpc, event, inner,
                   inner_tx, rx, sent, produced, events_sink, tx, response_sink,
                   response, finish_reason, invoked, joined, result>>

\* Lines 66-68: the cache response sink is configured and its receiver is
\* alive: the oneshot send delivers a clone of the final message.
HandoffSend ==
    /\ pc = "handoff"
    /\ cache_context.response_sender
    /\ response_sink.open
    /\ response_sink' =
           [response_sink EXCEPT !.delivered = Append(@, response[1].message)]
    /\ pc' = "finish_reason"
    /\ UNCHANGED <<scenario_vars, codec_vars>>
    /\ UNCHANGED <<cache_context, handle, handle_value, rpc, event, inner,
                   inner_tx, rx, sent, produced, events_sink, tx, response,
                   finish_reason, invoked, joined, result>>

\* Line 67: the receiver is gone: send returns the message back, unwrap
\* panics inside execute.
HandoffFail ==
    /\ pc = "handoff"
    /\ cache_context.response_sender
    /\ ~response_sink.open
    /\ pc' = "panic_handoff"
    /\ UNCHANGED <<scenario_vars, codec_vars>>
    /\ UNCHANGED <<cache_context, handle, handle_value, rpc, event, inner,
                   inner_tx, rx, sent, produced, events_sink, tx, response_sink,
                   response, finish_reason, invoked, joined, result>>

\* Line 66: no cache response sink is configured.
HandoffSkip ==
    /\ pc = "handoff"
    /\ ~cache_context.response_sender
    /\ pc' = "finish_reason"
    /\ UNCHANGED <<scenario_vars, codec_vars>>
    /\ UNCHANGED <<cache_context, handle, handle_value, rpc, event, inner,
                   inner_tx, rx, sent, produced, events_sink, tx, response_sink,
                   response, finish_reason, invoked, joined, result>>

\* Mutant of FinishReason: the content arm is tried before the tool_calls arm.
FinishReasonContentFirst(r) ==
    IF r.message.content # None
    THEN [ok |-> TRUE, value |-> r.finish_reason]
    ELSE IF r.message.tool_calls # None
         THEN [ok |-> TRUE, value |-> "tool_calls"]
         ELSE [ok |-> FALSE, value |-> "No content in response"]

\* Mutant of FinishReason: the content arm answers a fixed "stop".
FinishReasonFixedStop(r) ==
    IF r.message.tool_calls # None
    THEN [ok |-> TRUE, value |-> "tool_calls"]
    ELSE IF r.message.content # None
         THEN [ok |-> TRUE, value |-> "stop"]
         ELSE [ok |-> FALSE, value |-> "No content in response"]

\* Mutant of FinishReason: an empty message falls back to the provider's
\* finish reason instead of failing.
FinishReasonNoFailure(r) ==
    IF r.message.tool_calls # None
    THEN [ok |-> TRUE, value |-> "tool_calls"]
    ELSE [ok |-> TRUE, value |-> r.finish_reason]

\* Lines 70-83: the match on (tool_calls, content), arms in source order.
FinishReason(r) ==
    IF r.message.tool_calls # None
    THEN [ok |-> TRUE, value |-> "tool_calls"]
    ELSE IF r.message.content # None
         THEN [ok |-> TRUE, value |-> r.finish_reason]
         ELSE [ok |-> FALSE, value |-> "No content in response"]

\* Lines 70-83: Ok(reason) goes on to the join, Err returns through `?`.
ResolveFinishReason ==
    /\ pc = "finish_reason"
    /\ LET fr == FinishReason(response[1])
       IN  IF fr.ok
           THEN /\ finish_reason' = Some(fr.value)
                /\ pc' = "join"
                /\ result' = result
           ELSE /\ finish_reason' = finish_reason
                /\ pc' = "returned"
                /\ result' = [kind |-> "Err", error |-> fr.value]
    /\ UNCHANGED <<scenario_vars, codec_vars>>
    /\ UNCHANGED <<cache_context, handle, handle_value, rpc, event, inner,
                   inner_tx, rx, sent, produced, events_sink, tx, response_sink,
                   response, invoked, joined>>

\* The background usage task finishes with its pair; the model keeps the
\* first component, the only one execute reads. Nothing but the join at line
\* 86 observes the task, so it is let finish while execute awaits it.
UsageTaskComplete(v) ==
    /\ pc = "join"
    /\ handle = "running"
    /\ handle' = "done"
    /\ handle_value' = v
    /\ UNCHANGED <<scenario_vars, codec_vars>>
    /\ UNCHANGED <<cache_context, pc, rpc, event, inner, inner_tx, rx, sent,
                   produced, events_sink, tx, response_sink, response,
                   finish_reason, invoked, joined, result>>

\* The background usage task panics or is aborted: its join is a JoinError.
UsageTaskPanic ==
    /\ pc = "join"
    /\ handle = "running"
    /\ handle' = "panicked"
    /\ UNCHANGED <<scenario_vars, codec_vars>>
    /\ UNCHANGED <<cache_context, handle_value, pc, rpc, event, inner, inner_tx,
                   rx, sent, produced, events_sink, tx, response_sink, response,
                   finish_reason, invoked, joined, result>>

\* `x as i32` of an unsigned counter: values up to i32::MAX are kept, larger
\* ones wrap around to the negatives.
AsI32(x) == IF x <= 2147483647 THEN x ELSE ((x - 2147483647) - 2147483647) - 2

\* Line 90: u.and_then(|u| u.usage)
ModelUsage(u) == IF u = None THEN None ELSE u[1].usage

\* Mutant of IsCacheUsed: a missing usage record counts as "cache not used".
IsCacheUsedDefaultFalse(mu) ==
    IF mu = None THEN Some(FALSE) ELSE Some(mu[1].is_cache_used)

\* Line 91: model_usage.as_ref().map(|u| u.is_cache_used)
IsCacheUsed(mu) == IF mu = None THEN None ELSE Some(mu[1].is_cache_used)

\* Lines 92-104: the usage of the response; Default is all zeros.
Usage(mu) ==
    IF mu = None
    THEN [prompt_tokens |-> 0, completion_tokens |-> 0, total_tokens |-> 0,
          cost |-> 0]
    ELSE [prompt_tokens |-> AsI32(mu[1].input_tokens),
          completion_tokens |-> AsI32(mu[1].output_tokens),
          total_tokens |-> AsI32(mu[1].total_tokens),
          cost |-> 0]

\* Lines 106-120: the response; id, created and the model label are left out.
Assemble(r, fr, u) ==
    [object |-> "chat.completion",
     choices |-> <<[index |-> 0, message |-> r.message, finish_reason |-> fr]>>,
     usage |-> Usage(ModelUsage(u)),
     is_cache_used |-> IsCacheUsed(ModelUsage(u))]

\* Lines 85-89: what the join yields: the task's value, or None without a
\* handle.
Joined == IF handle = "absent" THEN None ELSE handle_value

\* Lines 85-123: await the handle if there is one, then build and return
\* the response (no await between the join and the return).
JoinUsage ==
    /\ pc = "join"
    /\ handle \in {"absent", "done"}
    /\ joined' = (handle # "absent")
    /\ result' = [kind |-> "Ok",
                  response |-> Assemble(response[1], finish_reason, Joined)]
    /\ pc' = "returned"
    /\ UNCHANGED <<scenario_vars, codec_vars>>
    /\ UNCHANGED <<cache_context, handle, handle_value, rpc, event, inner,
                   inner_tx, rx, sent, produced, events_sink, tx, response_sink,
                   response, finish_reason, invoked>>

\* Line 86: the task panicked: handle.await is Err(JoinError), unwrap panics.
JoinPanic ==
    /\ pc = "join"
    /\ handle = "panicked"
    /\ joined' = TRUE
    /\ pc' = "panic_join"
    /\ UNCHANGED <<scenario_vars, codec_vars>>
    /\ UNCHANGED <<cache_context, handle, handle_value, rpc, event, inner,
                   inner_tx, rx, sent, produced, events_sink, tx, response_sink,
                   response, finish_reason, invoked, result>>

\* ----------------------------------------------------------- specification

Next ==
    \/ SpawnRelay
    \/ InvokeModel
    \/ \E p \in Payloads : ModelSend(p)
    \/ ModelSendClosed
    \/ \E r \in InvocationResults : ModelReturnOk(r)
    \/ ModelReturnErr
    \/ RelayRecv
    \/ RelayClosed
    \/ RelayCacheSend
    \/ RelayCacheFail
    \/ RelayOutSend
    \/ RelayOutFail
    \/ CacheConsume
    \/ CacheReceiverDrop
    \/ OutConsume
    \/ OutReceiverDrop
    \/ ResponseReceiverDrop
    \/ HandoffSend
    \/ HandoffFail
    \/ HandoffSkip
    \/ ResolveFinishReason
    \/ \E v \in FinishEvents : UsageTaskComplete(v)
    \/ UsageTaskPanic
    \/ JoinUsage
    \/ JoinPanic

Spec == Init /\ [][Next]_vars

\* ------------------------------------------------------- relay properties

\* What the relay has taken or will take next: the item it holds, then the
\* buffer of the internal channel.
Pending == event \o inner

RelayAlive == rpc \in {"recv", "cache", "out", "stopped"}

\* Every item of the log was produced, and the items appear in the order of
\* their production (n is the position in the production order).
InProductionOrder(log) ==
    /\ \A i \in 1..Len(log) : \E k \in 1..Len(produced) : produced[k] = log[i]
    /\ \A i, j \in 1..Len(log) : i < j => log[i].n < log[j].n

\* C1: relay ordering. The cache events sink and the outbound sink each
\* observe the events in the relative order in which the model produced
\* them: no sink ever holds two events in swapped order.
C1_RelayOrdering ==
    /\ InProductionOrder(tx.log)
    /\ InProductionOrder(events_sink.log)

C1_Witness ==
    /\ cache_context.events_sender
    /\ Len(tx.log) >= 2
    /\ Len(events_sink.log) >= 2

\* C2: per-event delivery order across the two sinks. With a cache events
\* sink configured, an event reaches the cache events sink first and the
\* outbound sink second, and the next event is not delivered anywhere before
\* that: the outbound log is a prefix of the cache log, the cache log is at
\* most one event ahead, and it is ahead only while the relay holds that
\* very event for the outbound send (or has died on it). Without a cache
\* events sink nothing is ever delivered to it.
C2_PerEventDelivery ==
    /\ cache_context.events_sender =>
          /\ IsPrefix(tx.log, events_sink.log)
          /\ Len(events_sink.log) <= Len(tx.log) + 1
          /\ Len(events_sink.log) = Len(tx.log) + 1 =>
                \/ rpc = "out" /\ event = Some(events_sink.log[Len(events_sink.log)])
                \/ rpc = "panicked"
          /\ rpc = "cache" => events_sink.log = tx.log
    /\ ~cache_context.events_sender => events_sink.log = <<>>

C2_Witness ==
    /\ cache_context.events_sender
    /\ rpc = "out"
    /\ Len(tx.log) >= 1
    /\ Len(events_sink.log) = Len(tx.log) + 1

NoDuplicates(log) == \A i, j \in 1..Len(log) : i # j => log[i] # log[j]

\* C3: no event is dropped or duplicated. The internal channel never holds
\* more than its capacity; while the relay has not died on a closed sink,
\* every send call of the model was accepted (none was lost), and the
\* accepted events are exactly the ones delivered to each configured sink
\* followed by the ones still held by the relay or buffered; no sink holds
\* an event twice; and once the relay has stopped, each configured sink has
\* received exactly the produced events.
C3_NoLossNoDuplication ==
    /\ Len(inner) <= ChannelCapacity
    /\ NoDuplicates(tx.log)
    /\ NoDuplicates(events_sink.log)
    /\ RelayAlive =>
          /\ sent = Len(produced)
          /\ produced = tx.log \o Pending
          /\ cache_context.events_sender =>
                produced = events_sink.log \o (IF rpc = "out" THEN inner ELSE Pending)
    /\ rpc = "stopped" =>
          /\ tx.log = produced
          /\ cache_context.events_sender => events_sink.log = produced

\* More events than the channel holds went through it (so the producer met
\* a full channel or the relay freed slots in time) and reached both sinks.
C3_Witness ==
    /\ rpc = "stopped"
    /\ cache_context.events_sender
    /\ Len(produced) > ChannelCapacity
    /\ tx.log = produced
    /\ events_sink.log = produced

\* C4 as stated: whenever execute returns an ExecutionResponse, every event
\* the model produced has already been delivered to the outbound sink and
\* to the cache events sink if configured (stated for the runs in which no
\* sink was closed and the relay did not fail).
C4_AllRelayedBeforeReturn ==
    (result.kind = "Ok" /\ RelayAlive /\ tx.open /\ events_sink.open) =>
        /\ tx.log = produced
        /\ cache_context.events_sender => events_sink.log = produced

\* C4 as amended: the relay is spawned before the invocation and runs
\* concurrently with execute, which never joins it. Whenever execute returns
\* an ExecutionResponse, the model has finished producing, each sink has
\* received a prefix of the produced events, and (unless the relay died on a
\* closed sink) every produced event not yet delivered is still held by the
\* relay or buffered in the channel; all of them are delivered only once
\* the relay has drained the channel and stopped.
C4_RelayedConcurrently ==
    result.kind = "Ok" =>
        /\ rpc # "unspawned"
        /\ ~inner_tx
        /\ IsPrefix(tx.log, produced)
        /\ IsPrefix(events_sink.log, produced)
        /\ RelayAlive => produced = tx.log \o Pending
        /\ rpc = "stopped" => Pending = <<>>

\* execute has returned its response while events are still on their way.
C4_Witness ==
    /\ result.kind = "Ok"
    /\ rpc \in {"recv", "cache", "out"}
    /\ tx.open
    /\ Len(tx.log) < Len(produced)

\* C5 as stated: a delivery failure on either relay sink is fatal to the
\* whole execution: in no run do both happen, the relay failing on a closed
\* sink and execute returning an ExecutionResponse.
C5_SinkFailureFatal ==
    rpc = "panicked" => result.kind # "Ok"

\* ----------------------------------------------------- response properties

\* The final message of the invocation, once it has succeeded.
FinalMessage == response[1].message

\* Choice 0 of the returned response.
Choice0 == result.response.choices[1]

\* C6: finish-reason precedence. Whenever the final message carries
\* tool_calls, the finish_reason of choice 0 is "tool_calls", with or
\* without content and whatever the provider reported.
C6_ToolCallsPrecedence ==
    (result.kind = "Ok" /\ Choice0.message.tool_calls # None) =>
        Choice0.finish_reason = Some("tool_calls")

\* Tool calls and content together, and the provider reported "stop".
C6_Witness ==
    /\ result.kind = "Ok"
    /\ Choice0.message.tool_calls # None
    /\ Choice0.message.content # None
    /\ response[1].finish_reason = "stop"

\* C7: with content and no tool_calls, the finish_reason of choice 0 is the
\* provider-reported finish reason of the invocation result, unchanged.
C7_ProviderFinishReason ==
    (result.kind = "Ok" /\ Choice0.message.tool_calls = None
                        /\ Choice0.message.content # None) =>
        Choice0.finish_reason = Some(response[1].finish_reason)

C7_Witness ==
    /\ result.kind = "Ok"
    /\ Choice0.message.tool_calls = None
    /\ Choice0.message.content # None
    /\ response[1].finish_reason = "length"
    /\ Choice0.finish_reason = Some("length")

\* C8: empty response. Whenever execute has returned after an invocation
\* whose final message has neither tool_calls nor content, what it returned
\* is the error "No content in response": no response, no usage (the handle
\* was not even joined). An ExecutionResponse is returned only if tool_calls
\* or content is present.
C8_EmptyResponse ==
    /\ (pc = "returned" /\ response # None
          /\ FinalMessage.tool_calls = None /\ FinalMessage.content = None) =>
           /\ result = [kind |-> "Err", error |-> "No content in response"]
           /\ ~joined
    /\ result.kind = "Ok" =>
           /\ response # None
           /\ Choice0.message.tool_calls # None \/ Choice0.message.content # None

C8_Witness ==
    /\ pc = "returned"
    /\ response # None
    /\ FinalMessage = [tool_calls |-> None, content |-> None]
    /\ result.kind = "Err"
    /\ handle = "running"

\* The positions of execute after the handoff of lines 66-68.
PastHandoff == {"finish_reason", "join", "returned", "panic_handoff", "panic_join"}

\* C9 as stated: in every execution in which a cache response sink is
\* configured and the invocation succeeds, the final message is delivered to
\* the sink exactly once.
C9_AlwaysDeliveredOnce ==
    (cache_context.response_sender /\ response # None /\ pc \in PastHandoff) =>
        response_sink.delivered = <<FinalMessage>>

\* C9 as amended: the handoff is attempted once; it delivers the final
\* message exactly once when the sink's receiver is still alive, and when
\* the receiver has been dropped nothing is delivered and execute panics
\* without returning anything. The delivered message is the message of
\* choice 0; nothing is delivered twice, without a configured sink, or
\* without a successful invocation.
C9_SingleShotHandoff ==
    /\ Len(response_sink.delivered) <= 1
    /\ ~cache_context.response_sender => response_sink.delivered = <<>>
    /\ response = None => response_sink.delivered = <<>>
    /\ (cache_context.response_sender /\ response # None
          /\ pc \in PastHandoff \ {"panic_handoff"}) =>
           response_sink.delivered = <<FinalMessage>>
    /\ pc = "panic_handoff" =>
           /\ cache_context.response_sender
           /\ ~response_sink.open
           /\ response_sink.delivered = <<>>
           /\ result = NoResult
    /\ result.kind = "Ok" =>
           /\ Choice0.message = FinalMessage
           /\ cache_context.response_sender =>
                 response_sink.delivered = <<Choice0.message>>

C9_Witness ==
    /\ result.kind = "Ok"
    /\ cache_context.response_sender
    /\ response_sink.delivered = <<Choice0.message>>

\* C10: invocation failure is propagated immediately. invoke is never called
\* twice, and whenever execute has returned after invoke failed, it returned
\* the mapped invocation error after exactly one call, nothing was delivered
\* to the cache response sink, the usage task was not joined, and there is
\* no ExecutionResponse.
C10_InvocationFailure ==
    /\ invoked <= 1
    /\ (pc = "returned" /\ response = None) =>
           /\ result = [kind |-> "Err", error |-> "InvocationError"]
           /\ invoked = 1
           /\ response_sink.delivered = <<>>
           /\ ~joined
           /\ handle \in {"absent", "running"}
           /\ finish_reason = None

\* invoke failed after streaming an event, with a cache response sink and a
\* usage task at hand.
C10_Witness ==
    /\ pc = "returned"
    /\ response = None
    /\ result.kind = "Err"
    /\ cache_context.response_sender
    /\ response_sink.open
    /\ handle = "running"
    /\ Len(produced) >= 1

\* C11: usage defaults. In a returned response, when no usage record is
\* available (no handle supplied, or the joined task reported no finish
\* event, or the finish event carries no usage), prompt_tokens,
\* completion_tokens, total_tokens and cost are 0 and is_cache_used is None;
\* is_cache_used is Some(flag) only when a usage record exists, and flag is
\* then that record's cache-hit flag.
NoUsageRecord ==
    \/ handle = "absent"
    \/ handle_value = None
    \/ handle_value[1].usage = None

C11_UsageDefaults ==
    result.kind = "Ok" =>
        /\ NoUsageRecord =>
              /\ result.response.usage.prompt_tokens = 0
              /\ result.response.usage.completion_tokens = 0
              /\ result.response.usage.total_tokens = 0
              /\ result.response.usage.cost = 0
              /\ result.response.is_cache_used = None
        /\ ~NoUsageRecord =>
              result.response.is_cache_used =
                  Some(handle_value[1].usage[1].is_cache_used)
        /\ result.response.is_cache_used # None => ~NoUsageRecord

\* The handle was joined and its finish event carries no usage.
C11_Witness ==
    /\ result.kind = "Ok"
    /\ joined
    /\ handle_value = Some([usage |-> None])
    /\ result.response.is_cache_used = None

\* ======================================================================
\* The content codec and the message normalizer of core/src/types/threads.rs
\* ======================================================================

\* Longest wire array handed to the decoder.
MaxWireLen == 4

\* Longest content_array of a message handed to the normalizer.
MaxParts == 2

\* ------------------------------------------------------------ JSON values
\* serde_json::Value, as far as the codec meets it: null, strings, and
\* objects whose members are strings (a set of <<key, value>> pairs).

JNull == [kind |-> "null", str |-> "", obj |-> {}]
JStr(x) == [kind |-> "string", str |-> x, obj |-> {}]
JObj(o) == [kind |-> "object", str |-> "", obj |-> o]

\* ------------------------------------------------------- in-memory values

\* enum MessageContentType
MessageContentType ==
    {"MessageContentType::Text", "MessageContentType::ImageUrl",
     "MessageContentType::InputAudio"}

\* enum ImageDetail and enum AudioFormat
ImageDetail == {"ImageDetail::Auto", "ImageDetail::Low", "ImageDetail::High"}
AudioFormat == {"AudioFormat::Mp3", "AudioFormat::Wav"}

\* enum MessageContentPartOptions { Image(ImageDetail), Audio(AudioDetail) }
MessageContentPartOptions ==
    [variant : {"Image"}, detail : ImageDetail]
        \cup [variant : {"Audio"}, detail : AudioFormat]

\* CacheControl (types/gateway.rs): a caching hint, ephemeral with a ttl.
CacheControl == [type : {"ephemeral"}, ttl : {"5m", "1h"}]

\* struct MessageContentPart
MessageContentPart ==
    [type : MessageContentType,
     value : {"Hello world", ""},
     additional_options : {None} \cup {Some(m) : m \in MessageContentPartOptions},
     cache_control : {None} \cup {Some(c) : c \in CacheControl}]

\* --------------------------------------------------------------- encoding

\* impl Display for MessageContentType; the derived Serialize of a unit
\* variant writes the same name.
TypeToString(t) ==
    CASE t = "MessageContentType::Text" -> "Text"
      [] t = "MessageContentType::ImageUrl" -> "ImageUrl"
      [] t = "MessageContentType::InputAudio" -> "InputAudio"

\* The derived Serialize of ImageDetail and AudioFormat: the variant name.
DetailToString(d) ==
    CASE d = "ImageDetail::Auto" -> "Auto"
      [] d = "ImageDetail::Low" -> "Low"
      [] d = "ImageDetail::High" -> "High"
      [] d = "AudioFormat::Mp3" -> "Mp3"
      [] d = "AudioFormat::Wav" -> "Wav"

\* Mutant of OptionsToJson: audio options written as a bare format name.
OptionsToJsonFlat(m) == JStr(DetailToString(m.detail))

\* serde_json::to_value of the untagged MessageContentPartOptions: Image is
\* the detail's name, Audio is the AudioDetail struct {"type": format}.
OptionsToJson(m) ==
    IF m.variant = "Image"
    THEN JStr(DetailToString(m.detail))
    ELSE JObj({<<"type", DetailToString(m.detail)>>})

\* The JSON form of a CacheControl.
CacheControlToJson(c) == JObj({<<"type", c.type>>, <<"ttl", c.ttl>>})

\* Lines 168-169: map_or(Value::Null, |m| to_value(m).unwrap_or(Value::Null))
OptionsOrNull(o) == IF o = None THEN JNull ELSE OptionsToJson(o[1])

\* Mutant of ToValue: the cache directive is appended when present.
ToValueWithDirective(x) ==
    <<JStr(TypeToString(x.type)), JStr(x.value), OptionsOrNull(x.additional_options)>>
        \o (IF x.cache_control = None THEN <<>>
            ELSE <<CacheControlToJson(x.cache_control[1])>>)

\* impl From<MessageContentPart> for Value: a three-element array.
ToValue(x) ==
    <<JStr(TypeToString(x.type)), JStr(x.value), OptionsOrNull(x.additional_options)>>

\* #[derive(Serialize_tuple)]: the fields in order as an array, cache_control
\* left out when skip_serializing_if = "Option::is_none" says so.
Serialize(x) ==
    <<JStr(TypeToString(x.type)), JStr(x.value), OptionsOrNull(x.additional_options)>>
        \o (IF x.cache_control = None THEN <<>>
            ELSE <<CacheControlToJson(x.cache_control[1])>>)

\* --------------------------------------------------------------- decoding

\* The derived Deserialize of MessageContentType: a known variant name.
ParseType(j) ==
    IF j.kind # "string" THEN None
    ELSE CASE j.str = "Text" -> Some("MessageContentType::Text")
           [] j.str = "ImageUrl" -> Some("MessageContentType::ImageUrl")
           [] j.str = "InputAudio" -> Some("MessageContentType::InputAudio")
           [] OTHER -> None

\* The derived Deserialize of ImageDetail from a string.
ParseImageDetail(x) ==
    CASE x = "Auto" -> Some("ImageDetail::Auto")
      [] x = "Low" -> Some("ImageDetail::Low")
      [] x = "High" -> Some("ImageDetail::High")
      [] OTHER -> None

\* The derived Deserialize of AudioFormat from a string.
ParseAudioFormat(x) ==
    CASE x = "Mp3" -> Some("AudioFormat::Mp3")
      [] x = "Wav" -> Some("AudioFormat::Wav")
      [] OTHER -> None

\* The untagged MessageContentPartOptions, variants tried in source order:
\* Image from a detail name, then Audio from an object with a "type" member
\* (other members are ignored). None when no variant matches.
ParseOptions(j) ==
    IF j.kind = "string" /\ ParseImageDetail(j.str) # None
    THEN Some([variant |-> "Image", detail |-> ParseImageDetail(j.str)[1]])
    ELSE IF j.kind = "object"
              /\ \E f \in {"Mp3", "Wav"} : <<"type", f>> \in j.obj
         THEN LET f == CHOOSE f \in {"Mp3", "Wav"} : <<"type", f>> \in j.obj
              IN  Some([variant |-> "Audio", detail |-> ParseAudioFormat(f)[1]])
         ELSE None

\* serde_json::from_value::<CacheControl>(value).ok()
ParseCacheControl(j) ==
    IF j.kind = "object" /\ \E c \in CacheControl : CacheControlToJson(c) = j
    THEN Some(CHOOSE c \in CacheControl : CacheControlToJson(c) = j)
    ELSE None

\* The result of a decode: error is "" on success.
DecodeOk(part) == [error |-> "", index |-> 0, part |-> Some(part)]

\* An element of the array is not of the type its position asks for.
InvalidValue(i) == [error |-> "InvalidValue", index |-> i, part |-> None]

\* The array has elements left after the visitor has returned.
TrailingElements(n) == [error |-> "TrailingElements", index |-> n, part |-> None]

\* Mutant of InvalidLength: the error names the expected length.
InvalidLengthExpected(i) == [error |-> "InvalidLength", index |-> 3, part |-> None]

\* serde::de::Error::invalid_length(i, &self)
InvalidLength(i) == [error |-> "InvalidLength", index |-> i, part |-> None]

\* Mutant of FourthElement: a malformed directive becomes a default one.
FourthElementDefaulting(w) ==
    IF Len(w) < 4 THEN None
    ELSE IF w[4] = JNull THEN None
    ELSE IF ParseCacheControl(w[4]) = None
         THEN Some([type |-> "ephemeral", ttl |-> "5m"])
         ELSE ParseCacheControl(w[4])

\* Lines 143-148: the optional fourth element.
FourthElement(w) ==
    IF Len(w) < 4 THEN None
    ELSE IF w[4] = JNull THEN None
    ELSE ParseCacheControl(w[4])

\* Lines 127-156, visit_seq, then the end of deserialize_seq: serde_json
\* rejects an array the visitor has not read to its end.
Decode(w) ==
    IF Len(w) < 1 THEN InvalidLength(0)
    ELSE IF ParseType(w[1]) = None THEN InvalidValue(0)
    ELSE IF Len(w) < 2 THEN InvalidLength(1)
    ELSE IF w[2].kind # "string" THEN InvalidValue(1)
    ELSE IF Len(w) < 3 THEN InvalidLength(2)
    ELSE IF w[3] # JNull /\ ParseOptions(w[3]) = None THEN InvalidValue(2)
    ELSE IF Len(w) > 4 THEN TrailingElements(Len(w))
    ELSE DecodeOk([type |-> ParseType(w[1])[1],
                   value |-> w[2].str,
                   additional_options |->
                       IF w[3] = JNull THEN None ELSE ParseOptions(w[3]),
                   cache_control |-> FourthElement(w)])

\* ------------------------------------------------------ message normalizer

\* enum InnerMessage { Text(String), Array(Vec<MessageContentPart>) }
InnerText(x) == [variant |-> "Text", text |-> x, parts |-> <<>>]
InnerArray(a) == [variant |-> "Array", text |-> "", parts |-> a]

\* Option<String>::unwrap_or_default()
UnwrapOrDefault(o) == IF o = None THEN "" ELSE o[1]

\* Mutant of ToInnerMessage: a present content wins over the content parts.
ToInnerMessageContentFirst(m) ==
    IF m.content # None THEN InnerText(m.content[1])
    ELSE IF Len(m.content_array) = 0 THEN InnerText("")
    ELSE InnerArray(m.content_array)

\* impl From<Message> for InnerMessage: match on content_array.len()
ToInnerMessage(m) ==
    IF Len(m.content_array) = 0
    THEN InnerText(UnwrapOrDefault(m.content))
    ELSE InnerArray(m.content_array)

\* ------------------------------------------------ the codec specification

\* The elements the wire arrays are built from.
WireElements ==
    {JNull, JStr("Text"), JStr("Hello world"), JStr("Auto"),
     JObj({<<"type", "Mp3">>}),
     JObj({<<"type", "ephemeral">>, <<"ttl", "5m">>}),
     JObj({<<"bad", "shape">>})}

WireArrays == UNION {[1..n -> WireElements] : n \in 0..MaxWireLen}

\* The content parts the messages are built from.
SampleParts ==
    {x \in MessageContentPart :
        x.value = "Hello world" /\ x.additional_options = None
                                /\ x.cache_control = None}

\* struct Message, the fields the normalizer is handed that matter here:
\* content, content_array and, of the others, tool_call_id.
NormalizerMessages ==
    [content : {None, Some(""), Some("hi")},
     content_array : UNION {[1..n -> SampleParts] : n \in 0..MaxParts},
     tool_call_id : {None, Some("call_1")}]

\* A content part, a wire array or a message arrives; no execution runs.
CodecInit ==
    /\ cache_context = [events_sender |-> FALSE, response_sender |-> FALSE]
    /\ handle = "absent"
    /\ ExecuteEntry
    /\ planned = 0
    /\ out_stalled = FALSE
    /\ codec_out = None
    /\ \/ codec_pc = "part" /\ codec_in \in MessageContentPart
       \/ codec_pc = "wire" /\ codec_in \in WireArrays
       \/ codec_pc = "message" /\ codec_in \in NormalizerMessages

\* Value::from(part)
EncodePart ==
    /\ codec_pc = "part"
    /\ codec_out' = ToValue(codec_in)
    /\ codec_pc' = "value"
    /\ UNCHANGED <<pipeline_vars, scenario_vars, codec_in>>

\* serde_json::to_value(&part)
SerializePart ==
    /\ codec_pc = "part"
    /\ codec_out' = Serialize(codec_in)
    /\ codec_pc' = "serialized"
    /\ UNCHANGED <<pipeline_vars, scenario_vars, codec_in>>

\* serde_json::from_value of what Value::from produced.
DecodeValue ==
    /\ codec_pc = "value"
    /\ codec_out' = Decode(codec_out)
    /\ codec_pc' = "value_decoded"
    /\ UNCHANGED <<pipeline_vars, scenario_vars, codec_in>>

\* serde_json::from_value of what the derived Serialize produced.
DecodeSerialized ==
    /\ codec_pc = "serialized"
    /\ codec_out' = Decode(codec_out)
    /\ codec_pc' = "serialized_decoded"
    /\ UNCHANGED <<pipeline_vars, scenario_vars, codec_in>>

\* serde_json::from_value of a wire array.
DecodeWire ==
    /\ codec_pc = "wire"
    /\ codec_out' = Decode(codec_in)
    /\ codec_pc' = "decoded"
    /\ UNCHANGED <<pipeline_vars, scenario_vars, codec_in>>

\* InnerMessage::from(message)
Normalize ==
    /\ codec_pc = "message"
    /\ codec_out' = ToInnerMessage(codec_in)
    /\ codec_pc' = "inner"
    /\ UNCHANGED <<pipeline_vars, scenario_vars, codec_in>>

CodecNext ==
    \/ EncodePart
    \/ SerializePart
    \/ DecodeValue
    \/ DecodeSerialized
    \/ DecodeWire
    \/ Normalize

CodecSpec == CodecInit /\ [][CodecNext]_vars

\* ------------------------------------------------------- codec properties

\* C12: codec round trip. For every content part without a cache directive
\* (every kind, with no options, an Image option or an Audio option),
\* decoding what the encoder produced succeeds and yields the part again,
\* field for field; this holds for Value::from and for the derived
\* serialization alike.
C12_RoundTrip ==
    (codec_pc \in {"value_decoded", "serialized_decoded"}
        /\ codec_in.cache_control = None) =>
        /\ codec_out.error = ""
        /\ codec_out.part = Some(codec_in)
        /\ codec_out.part[1].type = codec_in.type
        /\ codec_out.part[1].value = codec_in.value
        /\ codec_out.part[1].additional_options = codec_in.additional_options
        /\ codec_out.part[1].cache_control = None

C12_Witness ==
    /\ codec_pc = "value_decoded"
    /\ codec_in.type = "MessageContentType::InputAudio"
    /\ codec_in.additional_options =
           Some([variant |-> "Audio", detail |-> "AudioFormat::Wav"])
    /\ codec_in.cache_control = None
    /\ codec_out.part = Some(codec_in)

\* C13 as stated: encoding a content part always produces exactly 3
\* elements, never a 4th, also for a part that carries a cache directive.
C13_EncodeAlwaysThree ==
    codec_pc \in {"value", "serialized"} => Len(codec_out) = 3

\* C13 as amended: the conversion Value::from(part) always produces exactly
\* the 3 elements [kind_tag, value, modality_options_or_null], so that for
\* every part x with a cache directive decode(Value::from(x)) succeeds, has
\* no cache directive, agrees with x in the other fields and differs from
\* x. The derived serialization (Serialize_tuple) produces the same 3
\* elements for a part without a cache directive and a 4th element, the
\* directive, for a part with one.
C13_EncodeAsymmetry ==
    /\ codec_pc = "value" =>
          /\ Len(codec_out) = 3
          /\ codec_out[1] = JStr(TypeToString(codec_in.type))
          /\ codec_out[2] = JStr(codec_in.value)
          /\ codec_in.additional_options = None <=> codec_out[3] = JNull
    /\ (codec_pc = "value_decoded" /\ codec_in.cache_control # None) =>
          /\ codec_out.error = ""
          /\ codec_out.part[1].cache_control = None
          /\ codec_out.part[1] # codec_in
          /\ codec_out.part[1] = [codec_in EXCEPT !.cache_control = None]
    /\ codec_pc = "serialized" =>
          /\ Len(codec_out) = (IF codec_in.cache_control = None THEN 3 ELSE 4)
          /\ SubSeq(codec_out, 1, 3) = ToValue(codec_in)

C13_Witness ==
    /\ codec_pc = "value_decoded"
    /\ codec_in.cache_control = Some([type |-> "ephemeral", ttl |-> "5m"])
    /\ codec_out.error = ""
    /\ codec_out.part[1].cache_control = None

\* C14: lenient 4th element. For a wire array of 3 or 4 elements whose first
\* three elements decode, the decode succeeds whatever the 4th element is;
\* the decoded cache directive is Some exactly when a 4th element is
\* present, not null and parseable as a cache directive, and None when it
\* is absent, null or malformed; the first three fields do not depend on
\* the 4th element, so the 3-element form and the 4-element form with an
\* explicit null decode to the same content part.
C14_LenientFourthElement ==
    (codec_pc = "decoded" /\ Len(codec_in) \in {3, 4}
        /\ Decode(SubSeq(codec_in, 1, 3)).error = "") =>
        /\ codec_out.error = ""
        /\ codec_out.part[1].cache_control # None <=>
              /\ Len(codec_in) = 4
              /\ codec_in[4] # JNull
              /\ ParseCacheControl(codec_in[4]) # None
        /\ [codec_out.part[1] EXCEPT !.cache_control = None]
               = Decode(SubSeq(codec_in, 1, 3)).part[1]
        /\ (Len(codec_in) = 3 \/ codec_in[4] = JNull) =>
               codec_out = Decode(SubSeq(codec_in, 1, 3))

\* A malformed 4th element: the decode succeeds without a cache directive.
C14_Witness ==
    /\ codec_pc = "decoded"
    /\ Len(codec_in) = 4
    /\ codec_in[4] = JObj({<<"bad", "shape">>})
    /\ codec_out.error = ""
    /\ codec_out.part[1].cache_control = None

\* The elements present are of the types their positions ask for.
WellFormedPrefix(w) ==
    /\ Len(w) >= 1 => ParseType(w[1]) # None
    /\ Len(w) >= 2 => w[2].kind = "string"

\* C15: short arrays fail. Decoding a wire array of n < 3 elements, the
\* present ones well-formed, fails with InvalidLength(n), the index of the
\* first missing position, and produces no content part.
C15_ShortArraysFail ==
    (codec_pc = "decoded" /\ Len(codec_in) < 3 /\ WellFormedPrefix(codec_in)) =>
        /\ codec_out.error = "InvalidLength"
        /\ codec_out.index = Len(codec_in)
        /\ codec_out.part = None

\* decode(["Text"])
C15_Witness ==
    /\ codec_pc = "decoded"
    /\ codec_in = <<JStr("Text")>>
    /\ codec_out.error = "InvalidLength"
    /\ codec_out.index = 1

\* C16: message normalization. The InnerMessage of a message is
\* Array(content_array) whenever content_array is not empty (content is
\* discarded, the parts keep their order), and otherwise Text(content),
\* Text("") when content is absent: it is a function of content and
\* content_array alone.
C16_MessageNormalization ==
    codec_pc = "inner" =>
        /\ codec_in.content_array # <<>> =>
              /\ codec_out.variant = "Array"
              /\ codec_out.parts = codec_in.content_array
              /\ codec_out.text = ""
        /\ (codec_in.content_array = <<>> /\ codec_in.content # None) =>
              /\ codec_out.variant = "Text"
              /\ codec_out.text = codec_in.content[1]
              /\ codec_out.parts = <<>>
        /\ (codec_in.content_array = <<>> /\ codec_in.content = None) =>
              /\ codec_out.variant = "Text"
              /\ codec_out.text = ""
              /\ codec_out.parts = <<>>

\* Content and two different content parts: the parts win, in order.
C16_Witness ==
    /\ codec_pc = "inner"
    /\ codec_in.content = Some("hi")
    /\ Len(codec_in.content_array) = 2
    /\ codec_in.content_array[1] # codec_in.content_array[2]
    /\ codec_out.variant = "Array"
    /\ codec_out.parts = codec_in.content_array

\* ------------------------------------------------------ relay termination

\* C17 as stated: the relay task stops only after every producer end of the
\* internal channel has been dropped and the channel has been drained; it
\* never stops while a producer end is still open.
C17_StopsOnlyOnClosure ==
    rpc \in {"stopped", "panicked"} => ~inner_tx

\* C17 as amended: the relay loop ends normally only when recv reports the
\* channel closed, that is after every producer end has been dropped and
\* every buffered item has been taken and delivered. The only other way the
\* task ends is the unwrap of a failed send on a sink whose receiver is gone
\* (lines 54 and 56), and that can happen while the producer end is open.
C17_StopsOnClosureOrSinkFailure ==
    /\ rpc = "stopped" =>
          /\ ~inner_tx
          /\ Pending = <<>>
          /\ ~rx
          /\ pc \notin {"start", "call", "invoke"}
    /\ rpc = "panicked" =>
          \/ ~tx.open
          \/ cache_context.events_sender /\ ~events_sink.open
    /\ (inner_tx /\ tx.open /\ events_sink.open) => rpc \notin {"stopped", "panicked"}

\* The relay has stopped on closure after relaying events; the sinks are
\* both open.
C17_Witness ==
    /\ rpc = "stopped"
    /\ Len(produced) >= 2
    /\ tx.open
    /\ events_sink.open

\* C18: the cache response handoff precedes finish-reason resolution and
\* the usage join. With a cache response sink configured, whenever execute
\* has failed with "No content in response" the final message, which has
\* neither tool_calls nor content, has been delivered to the sink exactly
\* once, and the usage task handle has not been joined; in general the
\* handoff is over before a finish reason is resolved and a finish reason
\* is resolved before the join.
C18_HandoffBeforeResolution ==
    /\ (cache_context.response_sender
          /\ result = [kind |-> "Err", error |-> "No content in response"]) =>
            /\ response_sink.delivered = <<FinalMessage>>
            /\ FinalMessage.tool_calls = None
            /\ FinalMessage.content = None
            /\ finish_reason = None
            /\ ~joined
            /\ pc = "returned"
    /\ (cache_context.response_sender /\ finish_reason # None) =>
            response_sink.delivered = <<FinalMessage>>
    /\ joined => finish_reason # None

\* The empty response failed an execution that had both a cache response
\* sink and a usage task handle.
C18_Witness ==
    /\ cache_context.response_sender
    /\ handle = "running"
    /\ result = [kind |-> "Err", error |-> "No content in response"]
    /\ response_sink.delivered # <<>>

\* The items of a sequence.
Range(s) == {s[i] : i \in 1..Len(s)}

\* The produced items whose payload is None.
NoneItems == {e \in Range(produced) : e.payload = "None"}

\* C19: an empty (None) payload is relayed like any other event. While the
\* relay has not died on a closed sink, every None item the channel
\* accepted has been delivered to the outbound sink (and to the cache events
\* sink if configured) or is still held by the relay or buffered; the relay
\* holding a None item is at one of the two sends; and the loop has ended
\* only if the channel is closed and drained, with every None item
\* delivered.
C19_NonePayloadRelayed ==
    /\ RelayAlive =>
          /\ NoneItems \subseteq Range(tx.log) \cup Range(Pending)
          /\ cache_context.events_sender =>
                NoneItems \subseteq Range(events_sink.log) \cup Range(Pending)
    /\ (event # None /\ event[1].payload = "None") => rpc \in {"cache", "out"}
    /\ rpc = "stopped" =>
          /\ ChannelClosed
          /\ NoneItems \subseteq Range(tx.log)
          /\ cache_context.events_sender => NoneItems \subseteq Range(events_sink.log)

\* A None item went to both sinks and the relay delivered a later item
\* after it.
C19_Witness ==
    /\ cache_context.events_sender
    /\ \E i, j \in 1..Len(tx.log) :
          /\ i < j
          /\ tx.log[i].payload = "None"
          /\ tx.log[j].payload = "Some"
          /\ events_sink.log[i] = tx.log[i]
          /\ events_sink.log[j] = tx.log[j]

\* ------------------------------------------------------------- progress
\* The scenarios of the progress claim: the model adapter sends `planned`
\* events and then returns; the consumers of the two relay sinks keep
\* receiving, except that the outbound sink's consumer may stop at any
\* moment (without dropping its receiver); the usage task completes. Tasks
\* are scheduled fairly by the runtime.

\* Enough events to overrun the outbound sink, the relay and the channel.
MaxPlanned == SinkCapacity + ChannelCapacity + 2

ProgressInit ==
    /\ cache_context \in [events_sender : BOOLEAN, response_sender : BOOLEAN]
    /\ handle \in {"absent", "running"}
    /\ ExecuteEntry
    /\ planned \in 0..MaxPlanned
    /\ out_stalled = FALSE
    /\ CodecIdle

\* The invocation returns once it has sent its events.
ScenarioReturnOk(r) == sent = planned /\ ModelReturnOk(r)

ScenarioReturnErr == sent = planned /\ ModelReturnErr

\* The outbound sink's consumer receives as long as it has not stopped.
ScenarioOutConsume == ~out_stalled /\ OutConsume

\* The outbound sink's consumer stops receiving; its receiver stays alive.
ConsumerStops ==
    /\ ~out_stalled
    /\ out_stalled' = TRUE
    /\ UNCHANGED <<pipeline_vars, planned, codec_vars>>

\* The steps of execute itself (lines 50-123).
ExecuteStep ==
    \/ SpawnRelay
    \/ InvokeModel
    \/ HandoffSend
    \/ HandoffFail
    \/ HandoffSkip
    \/ ResolveFinishReason
    \/ JoinUsage

\* Progress does not depend on what the events and the final message hold:
\* one payload, and one final message for each way execute ends after a
\* successful invocation.
ScenarioResults ==
    {r \in InvocationResults :
        r.finish_reason = "stop" /\ r.message.tool_calls = None}

\* The steps of the model adapter inside invoke.
ModelStep ==
    \/ ModelSend("Some")
    \/ \E r \in ScenarioResults : ScenarioReturnOk(r)
    \/ ScenarioReturnErr

\* The steps of the relay task (lines 51-58).
RelayStep ==
    \/ RelayRecv
    \/ RelayClosed
    \/ RelayCacheSend
    \/ RelayOutSend

\* The usage task completes (here without a finish event).
UsageStep == UsageTaskComplete(None)

ProgressNext ==
    \/ ExecuteStep
    \/ ModelStep
    \/ RelayStep
    \/ UsageStep
    \/ CacheConsume
    \/ ScenarioOutConsume
    \/ ConsumerStops
    \/ ResponseReceiverDrop

\* The runtime polls every task that can run; the consumers that have not
\* stopped keep receiving. Nothing obliges the outbound consumer to stop or
\* the cache writer to drop its response receiver.
ProgressSpec ==
    /\ ProgressInit
    /\ [][ProgressNext]_vars
    /\ WF_vars(ExecuteStep)
    /\ WF_vars(ModelStep)
    /\ WF_vars(RelayStep)
    /\ WF_vars(UsageStep)
    /\ WF_vars(CacheConsume)
    /\ WF_vars(ScenarioOutConsume)

\* The relay has terminated after delivering every event the model was to
\* emit.
Relayed ==
    /\ rpc = "stopped"
    /\ Len(produced) = planned
    /\ tx.log = produced
    /\ cache_context.events_sender => events_sink.log = produced

\* What the model has still to send.
Remaining == planned - sent

\* The free slots of the outbound sink and of the internal channel.
FreeSlots == (SinkCapacity - tx.buf) + (ChannelCapacity - Len(inner))

\* The relay task takes one more event out of the channel while it waits
\* for the sink, unless it holds one already.
RelaySlot == IF event = None THEN 1 ELSE 0

\* The outbound consumer has stopped with more left to send than the sink
\* and the channel can buffer.
StalledBeyondCapacity ==
    out_stalled /\ Remaining > SinkCapacity + ChannelCapacity

\* The outbound consumer has stopped with more left to send than there is
\* room for: the free slots and the event the relay task can hold.
StalledBeyondRoom == out_stalled /\ Remaining > FreeSlots + RelaySlot

\* The model's send is suspended on a full channel behind a relay that is
\* itself suspended on the full outbound sink.
Suspended ==
    /\ pc = "invoke"
    /\ sent < planned
    /\ ~HasCapacity(inner)
    /\ rpc = "out"
    /\ ~SinkAccepts(tx)

\* C20 as stated: under fair scheduling, unless the outbound consumer
\* stops, execute eventually returns and the relay terminates having
\* delivered every event; and once the outbound consumer has stopped with
\* more events left to send than the sink and the internal channel can
\* buffer, execute never returns.
C20_ProgressAsStated ==
    /\ <>(out_stalled \/ (pc = "returned" /\ Relayed))
    /\ [](StalledBeyondCapacity => [](pc # "returned"))

\* C20 as amended: under fair scheduling, unless the outbound consumer
\* stops, the relay terminates having delivered every event and execute
\* returns, or panics at the handoff because the cache response sink's
\* receiver was dropped; and once the outbound consumer has stopped with
\* more events left to send than fit in the sink, the channel and the one
\* slot of the relay task, this stays so, execute never gets past the
\* invocation, and the model's send ends up suspended forever.
C20_Progress ==
    /\ <>(\/ out_stalled
          \/ Relayed /\ pc = "returned"
          \/ Relayed /\ pc = "panic_handoff" /\ ~response_sink.open)
    /\ [][StalledBeyondRoom => StalledBeyondRoom']_vars
    /\ [](StalledBeyondRoom => pc \in {"start", "call", "invoke"} /\ result = NoResult)
    /\ [](StalledBeyondRoom => <>[]Suspended)

\* The outbound consumer has stopped and the model is suspended with events
\* left, the cache events sink being served all along.
C20_Witness ==
    /\ StalledBeyondRoom
    /\ Suspended
    /\ cache_context.events_sender
    /\ Len(events_sink.log) = Len(tx.log) + 1

====
